---- MODULE Spec2Model ----
(***************************************************************************)
(* Model of jerry-port/default/default-module.c: the default module        *)
(* resolver of the port layer, its registry of known modules (a singly     *)
(* linked list kept in the context data) and the release of known modules. *)
(* The model is the non-_WIN32 build: '/' is the only separator.           *)
(***************************************************************************)
EXTENDS Integers, Sequences, FiniteSets, TLC

(***************************************************************************)
(* Bounds of the model.                                                    *)
(***************************************************************************)
\* number of jerry_port_module_t blocks the heap can hold at one time
MaxRecords == 3
\* number of module objects jerry_parse can create in one run
MaxModules == 3
\* length of the path strings the path functions are tried on
MaxPathLen == 4
\* number of records of the lists jerry_port_module_free is tried on
MaxChain == 4

(***************************************************************************)
(* Values.                                                                 *)
(***************************************************************************)
\* the NULL pointer
NULL == 0
\* addresses malloc can return for a jerry_port_module_t
Addrs == 1..MaxRecords
\* module objects created by jerry_parse
Modules == 1..MaxModules
\* realm (global) objects; jerry_value_t values are integers
Realms == {-1, -2}
\* jerry_create_undefined (): a value that is not an object
Undefined == -3
\* every value the port holds counted references on
Values == Realms \cup Modules

\* strings are tuples of characters
Slash == "/"
Str_a == <<"a">>
Str_up_a == <<".", ".", "/", "a">>
Str_d_a == <<"/", "d", "/", "a">>
Str_dot_a == <<".", "/", "a">>
\* module specifiers the engine asks for
Specifiers == {Str_a, Str_up_a, Str_d_a}
\* what getcwd () can return
Cwds == {<<"/">>, <<"/", "d">>}

(***************************************************************************)
(* Path functions.                                                         *)
(***************************************************************************)
RECURSIVE DirectoryEndFrom(_, _)
\* the loop of jerry_port_get_directory_end: end is end_p - path_p, and
\* end_p[-1] is path[end]
DirectoryEndFrom(path, end) ==
  IF end > 0
    THEN IF path[end] = Slash THEN end ELSE DirectoryEndFrom(path, end - 1)
    ELSE 0

\* faulty variant: the scan stops at the first separator from the start
GetDirectoryEndFirst(path) ==
  IF \E i \in 1..Len(path) : path[i] = Slash
    THEN CHOOSE i \in 1..Len(path) :
           path[i] = Slash /\ \A j \in 1..(i - 1) : path[j] # Slash
    ELSE 0

jerry_port_get_directory_end(path) == DirectoryEndFrom(path, Len(path))

RECURSIVE SplitFrom(_, _, _, _)
\* the segments of a path: maximal runs of non-separator characters
SplitFrom(s, i, cur, acc) ==
  IF i > Len(s)
    THEN IF cur = <<>> THEN acc ELSE Append(acc, cur)
    ELSE IF s[i] = Slash
      THEN SplitFrom(s, i + 1, <<>>, IF cur = <<>> THEN acc ELSE Append(acc, cur))
      ELSE SplitFrom(s, i + 1, Append(cur, s[i]), acc)

Segments(s) == SplitFrom(s, 1, <<>>, <<>>)

RECURSIVE NormalizeSegments(_, _, _)
\* drop "." segments, let ".." remove the segment before it (nothing is
\* above the root)
NormalizeSegments(segs, i, out) ==
  IF i > Len(segs)
    THEN out
    ELSE IF segs[i] = <<".">>
      THEN NormalizeSegments(segs, i + 1, out)
      ELSE IF segs[i] = <<".", ".">>
        THEN NormalizeSegments(segs, i + 1,
               IF out = <<>> THEN out ELSE SubSeq(out, 1, Len(out) - 1))
        ELSE NormalizeSegments(segs, i + 1, Append(out, segs[i]))

RECURSIVE JoinSegments(_, _)
JoinSegments(segs, i) ==
  IF i > Len(segs) THEN <<>> ELSE <<Slash>> \o segs[i] \o JoinSegments(segs, i + 1)

IsAbsolute(s) == Len(s) > 0 /\ s[1] = Slash

\* cwk_path_get_absolute: the absolute, normalized path of `path` against
\* `base` (the root when base is not absolute)
cwk_path_get_absolute(base, path) ==
  LET b == IF IsAbsolute(base) THEN base ELSE <<Slash>>
      joined == IF IsAbsolute(path) THEN path ELSE b \o <<Slash>> \o path
      segs == NormalizeSegments(Segments(joined), 1, <<>>)
  IN IF segs = <<>> THEN <<Slash>> ELSE JoinSegments(segs, 1)

\* canonical paths the specifiers can resolve to
Paths == {<<"/", "a">>, <<"/", "d", "/", "a">>}
\* the (realm, path) keys of the registry
Keys == Realms \X Paths

(***************************************************************************)
(* The collaborators' outcomes in one call: which of them fails, if any,   *)
(* and what getcwd () returns when it succeeds.                            *)
(***************************************************************************)
\* the allocation or getcwd () call that fails before the path is known
Faults == {"none", "in_path_p", "in_path_pz", "base_path_pz", "getcwd",
           "cwd_malloc", "path_p"}
\* one of these calls fails, or none; what getcwd () returns shows only when
\* none of them fails
Envs == {e \in [fault : Faults, cwd : Cwds] :
           e.fault # "none" => e.cwd = <<Slash>>}
\* what fails once the path is known: in jerry_port_read_source (stat, a
\* path that is a directory, fopen, the malloc of the buffer, fread), in
\* jerry_parse (a source that does not parse) or the malloc of the record
ReadFaults == {"stat", "directory", "fopen", "source_malloc", "fread"}
IoFaults == {"none", "parse", "module_p"} \cup ReadFaults

\* what a call returns: an error value, a module object, or nothing
ErrOutOfMemory ==
  [type |-> "JERRY_ERROR_COMMON", msg |-> "Out of memory", module |-> NULL]
ErrNotFound ==
  [type |-> "JERRY_ERROR_SYNTAX", msg |-> "Module file not found", module |-> NULL]
\* the error value jerry_parse returns for a source that does not parse
ErrParse ==
  [type |-> "JERRY_ERROR_SYNTAX", msg |-> "Unexpected token", module |-> NULL]
ModuleValue(m) == [type |-> "module", msg |-> "", module |-> m]
\* a void function has returned, or the process has faulted
NoValue == [type |-> "none", msg |-> "", module |-> NULL]

\* a block of the heap that holds no record
FreeBlock == [alloc |-> FALSE, next_p |-> NULL, path_p |-> <<>>,
              base_path_length |-> 0, realm |-> Undefined, module |-> NULL]

VARIABLES
  module_head_p,  \* jerry_port_module_manager_t.module_head_p
  heap,           \* the jerry_port_module_t blocks, by address
  native_ptr,     \* the native pointer attached to each module object
  created,        \* number of module objects jerry_parse has created
  held,           \* counted references the port holds on each value
  parse_tried,    \* keys jerry_parse was invoked for since their release
  parse_ok,       \* keys jerry_parse returned a module for, likewise
  returned,       \* module objects resolve returned per key, likewise
  last            \* what the last call did

vars == <<module_head_p, heap, native_ptr, created, held, parse_tried,
          parse_ok, returned, last>>

\* the registry part of the state, as the operators below pass it around
Registry == [head |-> module_head_p, heap |-> heap, native |-> native_ptr,
             created |-> created, held |-> held]

RECURSIVE ChainFrom(_, _, _)
\* the records reachable from p along next_p, at most n of them
ChainFrom(hp, p, n) ==
  IF p = NULL \/ n = 0 THEN <<>> ELSE <<p>> \o ChainFrom(hp, hp[p].next_p, n - 1)

\* the list starting at the head pointer
Chain(head, hp) == ChainFrom(hp, head, MaxRecords + 1)

(***************************************************************************)
(* jerry_port_get_cwd and jerry_port_normalize_path.  A char pointer is    *)
(* <<>> when it is NULL and <<s>> when it points to the string s.          *)
(***************************************************************************)
NullStr == <<>>
StrPtr(s) == <<s>>

\* jerry_port_get_cwd (NULL, 0): the working directory in a new buffer, "/"
\* when getcwd fails, NULL when the buffer for "/" cannot be allocated
jerry_port_get_cwd(env) ==
  LET cwd_p == IF env.fault \in {"getcwd", "cwd_malloc"}
                 THEN NullStr
                 ELSE StrPtr(env.cwd)
  IN IF cwd_p # NullStr
       THEN cwd_p
       ELSE IF env.fault = "cwd_malloc" THEN NullStr ELSE StrPtr(<<Slash>>)

\* faulty variant: a NULL working directory is replaced by the root
NormalizePathRootFallback(in_path, base_path, base_path_length, env) ==
  IF env.fault = "in_path_pz"
    THEN [path |-> NullStr, live |-> {}]
    ELSE
      LET base_path_pz ==
            IF base_path_length > 0
              THEN IF env.fault = "base_path_pz"
                     THEN NullStr
                     ELSE StrPtr(SubSeq(base_path, 1, base_path_length))
              ELSE StrPtr(<<Slash>>)
      IN IF base_path_pz = NullStr
           THEN [path |-> NullStr, live |-> {}]
           ELSE IF env.fault = "path_p"
             THEN [path |-> NullStr, live |-> {}]
             ELSE [path |-> StrPtr(cwk_path_get_absolute(base_path_pz[1], in_path)),
                   live |-> {"path_p"}]

\* faulty variant: the base and the path are given to cwk_path_get_absolute
\* in the wrong order
NormalizePathSwapped(in_path, base_path, base_path_length, env) ==
  IF env.fault = "in_path_pz"
    THEN [path |-> NullStr, live |-> {}]
    ELSE
      LET base_path_pz ==
            IF base_path_length > 0
              THEN IF env.fault = "base_path_pz"
                     THEN NullStr
                     ELSE StrPtr(SubSeq(base_path, 1, base_path_length))
              ELSE jerry_port_get_cwd(env)
      IN IF base_path_pz = NullStr
           THEN [path |-> NullStr, live |-> {}]
           ELSE IF env.fault = "path_p"
             THEN [path |-> NullStr, live |-> {}]
             ELSE [path |-> StrPtr(cwk_path_get_absolute(in_path, base_path_pz[1])),
                   live |-> {"path_p"}]

\* jerry_port_normalize_path: the normalized path in a new buffer or NULL,
\* and the buffers of the call that are still allocated when it returns
jerry_port_normalize_path(in_path, base_path, base_path_length, env) ==
  IF env.fault = "in_path_pz"
    THEN [path |-> NullStr, live |-> {}]
    ELSE
      LET base_path_pz ==
            IF base_path_length > 0
              THEN IF env.fault = "base_path_pz"
                     THEN NullStr
                     ELSE StrPtr(SubSeq(base_path, 1, base_path_length))
              ELSE jerry_port_get_cwd(env)
          allocated == {"in_path_pz"}
                         \cup (IF base_path_pz = NullStr THEN {} ELSE {"base_path_pz"})
      IN IF base_path_pz = NullStr
           THEN [path |-> NullStr, live |-> allocated \ {"in_path_pz"}]
           ELSE
             LET path_p == IF env.fault = "path_p"
                             THEN NullStr
                             ELSE StrPtr(cwk_path_get_absolute(base_path_pz[1],
                                                               in_path))
             IN [path |-> path_p,
                 live |-> (allocated \cup (IF path_p = NullStr THEN {} ELSE {"path_p"}))
                            \ {"base_path_pz", "in_path_pz"}]

(***************************************************************************)
(* jerry_port_module_free.                                                 *)
(***************************************************************************)
\* faulty variant: the realm of the record is not compared
ReleaseMatchesAny(rec, realm, release_all) == TRUE

\* a record matches when every module is released or its realm is the one
\* given
ReleaseMatches(rec, realm, release_all) == release_all \/ rec.realm = realm

RECURSIVE ModuleFreeLoopAdvances(_, _, _, _, _)
\* faulty variant: prev_p is set to module_p also when the record has been
\* freed
ModuleFreeLoopAdvances(module_p, prev_p, realm, release_all, acc) ==
  IF module_p = NULL
    THEN acc
    ELSE
      LET rec == acc.heap[module_p]
          next_p == rec.next_p
      IN IF ReleaseMatches(rec, realm, release_all)
           THEN
             LET freed_heap == [acc.heap EXCEPT ![module_p] = FreeBlock]
                 unlinked ==
                   [acc EXCEPT
                      !.heap = IF prev_p = NULL
                                 THEN freed_heap
                                 ELSE [freed_heap EXCEPT ![prev_p].next_p = next_p],
                      !.head = IF prev_p = NULL THEN next_p ELSE acc.head,
                      !.held = [acc.held EXCEPT ![rec.realm] = @ - 1,
                                                ![rec.module] = @ - 1],
                      !.released = acc.released \o <<rec.realm, rec.module>>,
                      !.freed = acc.freed \o <<<<"path_p", module_p>>,
                                               <<"module_p", module_p>>>>]
             IN ModuleFreeLoopAdvances(next_p, module_p, realm, release_all, unlinked)
           ELSE ModuleFreeLoopAdvances(next_p, module_p, realm, release_all, acc)

RECURSIVE ModuleFreeLoop(_, _, _, _, _)
\* the while loop of jerry_port_module_free; acc holds the head pointer, the
\* heap, the references held and what has been released and freed so far
ModuleFreeLoop(module_p, prev_p, realm, release_all, acc) ==
  IF module_p = NULL
    THEN acc
    ELSE
      LET rec == acc.heap[module_p]
          next_p == rec.next_p
      IN IF ReleaseMatches(rec, realm, release_all)
           THEN
             LET freed_heap == [acc.heap EXCEPT ![module_p] = FreeBlock]
                 unlinked ==
                   [acc EXCEPT
                      !.heap = IF prev_p = NULL
                                 THEN freed_heap
                                 ELSE [freed_heap EXCEPT ![prev_p].next_p = next_p],
                      !.head = IF prev_p = NULL THEN next_p ELSE acc.head,
                      !.held = [acc.held EXCEPT ![rec.realm] = @ - 1,
                                                ![rec.module] = @ - 1],
                      !.released = acc.released \o <<rec.realm, rec.module>>,
                      !.freed = acc.freed \o <<<<"path_p", module_p>>,
                                               <<"module_p", module_p>>>>]
             IN ModuleFreeLoop(next_p, prev_p, realm, release_all, unlinked)
           ELSE ModuleFreeLoop(next_p, module_p, realm, release_all, acc)

\* faulty variant: release_all is set when the realm is an object
ModuleFreeObjectMeansAll(st, realm) ==
  ModuleFreeLoop(st.head, NULL, realm, realm \in Realms,
                 [head |-> st.head, heap |-> st.heap, held |-> st.held,
                  released |-> <<>>, freed |-> <<>>])

\* jerry_port_module_free (manager_p, realm)
jerry_port_module_free(st, realm) ==
  ModuleFreeLoop(st.head, NULL, realm, realm \notin Realms,
                 [head |-> st.head, heap |-> st.heap, held |-> st.held,
                  released |-> <<>>, freed |-> <<>>])

(***************************************************************************)
(* jerry_port_module_resolve.                                              *)
(***************************************************************************)
\* module objects a call can name as the referrer, and a value that has no
\* native pointer of this port
Referrers == {Undefined} \cup {m \in Modules : m <= created}

\* jerry_get_object_native_pointer and the two reads through module_p: the
\* base path and its length. Reading a freed record is undefined: the read
\* yields some path and directory length, or the process faults.
ReferrerBases(st, referrer) ==
  IF referrer \notin Modules \/ st.native[referrer] = NULL
    THEN {[fault |-> FALSE, path |-> <<>>, length |-> 0]}
    ELSE
      LET module_p == st.native[referrer]
      IN IF st.heap[module_p].alloc
           THEN {[fault |-> FALSE, path |-> st.heap[module_p].path_p,
                  length |-> st.heap[module_p].base_path_length]}
           ELSE {[fault |-> TRUE, path |-> <<>>, length |-> 0],
                 [fault |-> FALSE, path |-> <<>>, length |-> 0]}
                \cup {[fault |-> FALSE, path |-> q,
                       length |-> jerry_port_get_directory_end(q)] : q \in Paths}

RECURSIVE LookupFrom(_, _, _, _)
\* the while loop of the resolver: the first record of the list, from
\* module_p on, with this realm and this path, or NULL
LookupFrom(hp, module_p, realm, path) ==
  IF module_p = NULL
    THEN NULL
    ELSE IF hp[module_p].realm = realm /\ hp[module_p].path_p = path
      THEN module_p
      ELSE LookupFrom(hp, hp[module_p].next_p, realm, path)

\* faulty variant: only the first record of the list is compared
LookupHeadOnly(st, realm, path) ==
  IF st.head # NULL /\ st.heap[st.head].realm = realm
       /\ st.heap[st.head].path_p = path
    THEN st.head
    ELSE NULL

\* faulty variant: the result of strcmp is read the wrong way round
LookupOtherPath(st, realm, path) ==
  IF \E a \in Addrs : /\ st.heap[a].alloc /\ st.heap[a].realm = realm
                       /\ st.heap[a].path_p # path
    THEN CHOOSE a \in Addrs : /\ st.heap[a].alloc /\ st.heap[a].realm = realm
                              /\ st.heap[a].path_p # path
    ELSE NULL

\* faulty variant: the realm is not compared
LookupAnyRealm(st, realm, path) ==
  IF \E a \in Addrs : st.heap[a].alloc /\ st.heap[a].path_p = path
    THEN CHOOSE a \in Addrs : st.heap[a].alloc /\ st.heap[a].path_p = path
    ELSE NULL

Lookup(st, realm, path) == LookupFrom(st.heap, st.head, realm, path)

\* the process faults: a write through a NULL pointer, or a read through a
\* dangling one
Faulted(st, live, reads, parses) ==
  [st |-> st, outcome |-> "fault", ret |-> NoValue, reads |-> reads,
   parses |-> parses, scanned |-> reads > 0, live |-> live,
   acquired |-> <<>>, released |-> <<>>]

\* path_p == NULL: the error is returned as it is
ResolveOutOfMemory(st, live) ==
  [st |-> st, outcome |-> "out_of_memory", ret |-> ErrOutOfMemory,
   reads |-> 0, parses |-> 0, scanned |-> FALSE, live |-> live,
   acquired |-> <<>>, released |-> <<>>]

\* faulty variant: the module of the record is returned without a new
\* reference
ResolveHitNoAcquire(st, realm, module_p, live) ==
  [st |-> [st EXCEPT !.held[realm] = @ - 1],
   outcome |-> "hit", ret |-> ModuleValue(st.heap[module_p].module),
   reads |-> 0, parses |-> 0, scanned |-> TRUE,
   live |-> live \ {"path_p", "in_path_p"},
   acquired |-> <<realm>>, released |-> <<realm>>]

\* faulty variant: the realm is not released when a record matches
ResolveHitKeepsRealm(st, realm, module_p, live) ==
  [st |-> st,
   outcome |-> "hit", ret |-> ModuleValue(st.heap[module_p].module),
   reads |-> 0, parses |-> 0, scanned |-> TRUE,
   live |-> live \ {"path_p", "in_path_p"},
   acquired |-> <<realm, st.heap[module_p].module>>, released |-> <<>>]

\* a record of the list matches: the buffers are freed, the realm released
\* and a new reference to the module of the record returned
ResolveHit(st, realm, module_p, live) ==
  [st |-> [st EXCEPT !.held[realm] = @ - 1],
   outcome |-> "hit", ret |-> ModuleValue(st.heap[module_p].module),
   reads |-> 0, parses |-> 0, scanned |-> TRUE,
   live |-> live \ {"path_p", "in_path_p"},
   acquired |-> <<realm, st.heap[module_p].module>>, released |-> <<realm>>]

\* faulty variant: the error is created with the common type
ResolveNotFoundCommon(st, realm, live) ==
  [st |-> [st EXCEPT !.held[realm] = @ - 1],
   outcome |-> "not_found",
   ret |-> [ErrNotFound EXCEPT !.type = "JERRY_ERROR_COMMON"],
   reads |-> 1, parses |-> 0, scanned |-> TRUE,
   live |-> live \ {"path_p", "in_path_p"},
   acquired |-> <<realm>>, released |-> <<realm>>]

\* source_p == NULL
ResolveNotFound(st, realm, live) ==
  [st |-> [st EXCEPT !.held[realm] = @ - 1],
   outcome |-> "not_found", ret |-> ErrNotFound,
   reads |-> 1, parses |-> 0, scanned |-> TRUE,
   live |-> live \ {"path_p", "in_path_p"},
   acquired |-> <<realm>>, released |-> <<realm>>]

\* faulty variant: the error of jerry_parse is dropped and the error of a
\* missing file returned
ResolveParseErrorReplaced(st, realm, ret_value, live) ==
  [st |-> [st EXCEPT !.held[realm] = @ - 1],
   outcome |-> "parse_error", ret |-> ErrNotFound,
   reads |-> 1, parses |-> 1, scanned |-> TRUE,
   live |-> live \ {"path_p"},
   acquired |-> <<realm>>, released |-> <<realm>>]

\* jerry_parse returned an error: it is returned as it is; live is what is
\* allocated after the source and in_path_p have been freed
ResolveParseError(st, realm, ret_value, live) ==
  [st |-> [st EXCEPT !.held[realm] = @ - 1],
   outcome |-> "parse_error", ret |-> ret_value,
   reads |-> 1, parses |-> 1, scanned |-> TRUE,
   live |-> live \ {"path_p"},
   acquired |-> <<realm>>, released |-> <<realm>>]

\* faulty variant: the new record is written but the head pointer of the
\* manager is not set to it
ResolveInsertNotLinked(st, realm, path, ret_value, module_p, live) ==
  LET rec == [alloc |-> TRUE, next_p |-> st.head, path_p |-> path,
              base_path_length |-> jerry_port_get_directory_end(path),
              realm |-> realm, module |-> ret_value]
  IN [st |-> [st EXCEPT
                !.heap[module_p] = rec,
                !.native = [m \in Modules |->
                              IF m = ret_value THEN module_p ELSE st.native[m]],
                !.held = [v \in Values |->
                            IF v = ret_value THEN st.held[v] + 1 ELSE st.held[v]]],
      outcome |-> "inserted", ret |-> ModuleValue(ret_value),
      reads |-> 1, parses |-> 1, scanned |-> TRUE,
      live |-> live \ {"path_p"},
      acquired |-> <<realm, ret_value, ret_value>>, released |-> <<>>]

\* faulty variant: base_path_length is the length of the whole path
ResolveInsertWholePath(st, realm, path, ret_value, module_p, live) ==
  LET rec == [alloc |-> TRUE, next_p |-> st.head, path_p |-> path,
              base_path_length |-> Len(path),
              realm |-> realm, module |-> ret_value]
  IN [st |-> [st EXCEPT
                !.heap[module_p] = rec,
                !.head = module_p,
                !.native = [m \in Modules |->
                              IF m = ret_value THEN module_p ELSE st.native[m]],
                !.held = [v \in Values |->
                            IF v = ret_value THEN st.held[v] + 1 ELSE st.held[v]]],
      outcome |-> "inserted", ret |-> ModuleValue(ret_value),
      reads |-> 1, parses |-> 1, scanned |-> TRUE,
      live |-> live \ {"path_p"},
      acquired |-> <<realm, ret_value, ret_value>>, released |-> <<>>]

\* the new record, written through module_p, becomes the head of the list;
\* the reference to the realm and the path buffer pass to the record
ResolveInsert(st, realm, path, ret_value, module_p, live) ==
  LET rec == [alloc |-> TRUE, next_p |-> st.head, path_p |-> path,
              base_path_length |-> jerry_port_get_directory_end(path),
              realm |-> realm, module |-> ret_value]
  IN [st |-> [st EXCEPT
                !.heap[module_p] = rec,
                !.head = module_p,
                !.native = [m \in Modules |->
                              IF m = ret_value THEN module_p ELSE st.native[m]],
                !.held = [v \in Values |->
                            IF v = ret_value THEN st.held[v] + 1 ELSE st.held[v]]],
      outcome |-> "inserted", ret |-> ModuleValue(ret_value),
      reads |-> 1, parses |-> 1, scanned |-> TRUE,
      live |-> live \ {"path_p"},
      acquired |-> <<realm, ret_value, ret_value>>, released |-> <<>>]

\* jerry_port_read_source: the buffer with the source or NULL, and whether
\* the buffer is still allocated when it returns
jerry_port_read_source(io) ==
  IF io \in {"stat", "directory"}
    THEN [source |-> NullStr, live |-> {}]
    ELSE IF io = "fopen"
      THEN [source |-> NullStr, live |-> {}]
      ELSE IF io = "source_malloc"
        THEN [source |-> NullStr, live |-> {}]
        ELSE IF io = "fread"
          THEN [source |-> NullStr, live |-> {"source_p"} \ {"source_p"}]
          ELSE [source |-> StrPtr("source"), live |-> {"source_p"}]

\* the miss: read the source, parse it, then the error or the new record;
\* module_p is what malloc returns for the record
ResolveMiss(st, realm, path, io, module_p, live) ==
  IF jerry_port_read_source(io).source = NullStr
    THEN ResolveNotFound(st, realm, live \cup jerry_port_read_source(io).live)
    ELSE
      LET after_parse == (live \cup jerry_port_read_source(io).live)
                           \ {"source_p", "in_path_p"}
          parsed == [st EXCEPT !.created = @ + 1]
      IN IF io = "parse"
           THEN ResolveParseError(st, realm, ErrParse, after_parse)
           ELSE IF module_p = NULL
             THEN Faulted(parsed, after_parse, 1, 1)
             ELSE ResolveInsert(parsed, realm, path, parsed.created, module_p,
                                after_parse)

\* the first part of jerry_port_module_resolve: the copy of the specifier
\* and the normalized path
ResolvePath(specifier, base, env) ==
  IF base.fault \/ env.fault = "in_path_p"
    THEN [fault |-> TRUE, path |-> NullStr, live |-> {}]
    ELSE
      LET norm == jerry_port_normalize_path(specifier, base.path,
                                            base.length, env)
      IN [fault |-> FALSE, path |-> norm.path,
          live |-> {"in_path_p"} \cup norm.live]

\* the rest of jerry_port_module_resolve, from the test of path_p on
ResolveFrom(st, start, realm, io, module_p) ==
  IF start.fault
    THEN Faulted(st, {}, 0, 0)
    ELSE IF start.path = NullStr
      THEN ResolveOutOfMemory(st, start.live)
      ELSE
        LET path_p == start.path[1]
            got == [st EXCEPT !.held[realm] = @ + 1]
            found == Lookup(got, realm, path_p)
        IN IF found # NULL
             THEN ResolveHit(got, realm, found, start.live)
             ELSE ResolveMiss(got, realm, path_p, io, module_p, start.live)

(***************************************************************************)
(* The calls.                                                              *)
(***************************************************************************)
\* what is kept of the last call: its inputs (the realm that is current or
\* given, what the first part of the resolver came to, the call that
\* fails) and what it did
NoCall ==
  [op |-> "init", realm |-> Undefined,
   start |-> [fault |-> FALSE, path |-> NullStr, live |-> {}],
   io |-> "none", outcome |-> "none", ret |-> NoValue, reads |-> 0,
   parses |-> 0, scanned |-> FALSE, live |-> {}, acquired |-> <<>>,
   released |-> <<>>, freed |-> <<>>]

\* jerry_port_module_manager_init, and an engine that has resolved nothing
InitialState ==
  /\ module_head_p = NULL
  /\ heap = [a \in Addrs |-> FreeBlock]
  /\ native_ptr = [m \in Modules |-> NULL]
  /\ created = 0
  /\ held = [v \in Values |-> 0]
  /\ parse_tried = {}
  /\ parse_ok = {}
  /\ returned = [k \in Keys |-> {}]
  /\ last = NoCall

Init == InitialState

\* the engine runs: it has not faulted and has not been cleaned up
Running == last.outcome # "fault" /\ last.op # "deinit"

\* what malloc (sizeof (jerry_port_module_t)) returns: NULL, or the first
\* block that is free
MallocRecord(io) ==
  LET free == {a \in Addrs : ~heap[a].alloc}
  IN IF io = "module_p" \/ free = {}
       THEN NULL
       ELSE CHOOSE a \in free : \A b \in free : a <= b

\* what the first part of the resolver can come to in this state, over the
\* specifiers, the referrers and the outcomes of the allocations
ResolveStarts ==
  {ResolvePath(specifier, base, env) :
     specifier \in Specifiers, env \in Envs,
     base \in UNION {ReferrerBases(Registry, referrer) :
                       referrer \in Referrers}}

\* the realm that is current, when jerry_get_global_object is reached
RealmsRead(start) ==
  IF start.fault \/ start.path = NullStr THEN {Undefined} ELSE Realms

\* the call that fails after the lookup, when the lookup misses
IoRead(start, realm) ==
  IF realm = Undefined \/ Lookup(Registry, realm, start.path[1]) # NULL
    THEN {"none"}
    ELSE IoFaults

\* jerry_port_module_resolve (specifier, referrer, user_p) in the realm
\* that is current
ModuleResolve ==
  /\ Running
  /\ \E start \in ResolveStarts :
     \E realm \in RealmsRead(start) :
     \E io \in IoRead(start, realm) :
       \E r \in {ResolveFrom(Registry, start, realm, io, MallocRecord(io))} :
         LET key == <<realm, IF start.path = NullStr THEN <<>> ELSE start.path[1]>>
         IN /\ r.st.created <= MaxModules
            /\ module_head_p' = r.st.head
            /\ heap' = r.st.heap
            /\ native_ptr' = r.st.native
            /\ created' = r.st.created
            /\ held' = r.st.held
            /\ parse_tried' = IF r.parses = 1
                                THEN parse_tried \cup {key}
                                ELSE parse_tried
            /\ parse_ok' = IF r.parses = 1 /\ r.ret.type = "module"
                             THEN parse_ok \cup {key}
                             ELSE parse_ok
            /\ returned' = IF r.ret.type = "module"
                             THEN [returned EXCEPT ![key] = @ \cup {r.ret.module}]
                             ELSE returned
            /\ last' = [op |-> "resolve", realm |-> realm, start |-> start,
                        io |-> io, outcome |-> r.outcome, ret |-> r.ret,
                        reads |-> r.reads, parses |-> r.parses,
                        scanned |-> r.scanned, live |-> r.live,
                        acquired |-> r.acquired, released |-> r.released,
                        freed |-> <<>>]

\* the release of known modules, and what it does to the histories kept
\* per key
Release(op, realm) ==
  \E f \in {jerry_port_module_free(Registry, realm)} :
    LET kept(k) == realm \in Realms /\ k[1] # realm
    IN /\ module_head_p' = f.head
       /\ heap' = f.heap
       /\ held' = f.held
       /\ parse_tried' = {k \in parse_tried : kept(k)}
       /\ parse_ok' = {k \in parse_ok : kept(k)}
       /\ returned' = [k \in Keys |-> IF kept(k) THEN returned[k] ELSE {}]
       /\ last' = [NoCall EXCEPT !.op = op, !.outcome = "released",
                                 !.realm = realm, !.released = f.released,
                                 !.freed = f.freed]
       /\ UNCHANGED <<native_ptr, created>>

\* jerry_port_module_release (realm)
ModuleRelease ==
  /\ Running
  /\ \E realm \in Realms \cup {Undefined} : Release("release", realm)

\* jerry_port_module_manager_deinit: the engine is cleaned up
ManagerDeinit ==
  /\ Running
  /\ Release("deinit", Undefined)

\* jerry_port_module_manager_init: a new engine after a cleanup
ManagerInit ==
  /\ last.op = "deinit"
  /\ module_head_p' = NULL
  /\ heap' = [a \in Addrs |-> FreeBlock]
  /\ native_ptr' = [m \in Modules |-> NULL]
  /\ created' = 0
  /\ held' = [v \in Values |-> 0]
  /\ parse_tried' = {}
  /\ parse_ok' = {}
  /\ returned' = [k \in Keys |-> {}]
  /\ last' = NoCall

Next ==
  \/ ModuleResolve
  \/ ModuleRelease
  \/ ManagerDeinit
  \/ ManagerInit

Spec == Init /\ [][Next]_vars

TypeOK ==
  /\ module_head_p \in Addrs \cup {NULL}
  /\ created \in 0..MaxModules
  /\ parse_ok \subseteq parse_tried

(***************************************************************************)
(* The path functions on their own: a call of jerry_port_get_directory_end *)
(* or of jerry_port_normalize_path with arguments drawn from the strings   *)
(* over '/', 'a' and '.' of bounded length and the two paths of the        *)
(* examples.  The registry stays empty.                                    *)
(***************************************************************************)
Str_abc_js == <<"/", "a", "/", "b", "/", "c", ".", "j", "s">>
Str_bare_js == <<"b", "a", "r", "e", ".", "j", "s">>
PathChars == {Slash, "a", "."}
PathStrings ==
  UNION {[1..n -> PathChars] : n \in 0..MaxPathLen} \cup {Str_abc_js, Str_bare_js}

\* the base paths jerry_port_normalize_path is given: none, or a canonical
\* path of a record with its directory length
BaseArguments ==
  {[path |-> <<>>, length |-> 0]}
    \cup {[path |-> q, length |-> jerry_port_get_directory_end(q)] : q \in Paths}

\* the calls that can be made
PathCalls ==
  {[op |-> "call_get_directory_end", path |-> p] : p \in PathStrings}
    \cup {[op |-> "call_normalize_path", path |-> p, base |-> b, env |-> e] :
            p \in PathStrings, b \in BaseArguments, e \in Envs}

PathInit ==
  /\ module_head_p = NULL
  /\ heap = [a \in Addrs |-> FreeBlock]
  /\ native_ptr = [m \in Modules |-> NULL]
  /\ created = 0
  /\ held = [v \in Values |-> 0]
  /\ parse_tried = {}
  /\ parse_ok = {}
  /\ returned = [k \in Keys |-> {}]
  /\ last \in PathCalls

\* jerry_port_get_directory_end (path_p)
GetDirectoryEnd ==
  /\ last.op = "call_get_directory_end"
  /\ last' = [op |-> "get_directory_end", path |-> last.path,
              ret |-> jerry_port_get_directory_end(last.path)]
  /\ UNCHANGED <<module_head_p, heap, native_ptr, created, held, parse_tried,
                 parse_ok, returned>>

\* jerry_port_normalize_path (in_path_p, in_path_length, base_path_p,
\* base_path_length)
NormalizePath ==
  /\ last.op = "call_normalize_path"
  /\ \E norm \in {jerry_port_normalize_path(last.path, last.base.path,
                                             last.base.length, last.env)} :
       last' = [op |-> "normalize_path", path |-> last.path, base |-> last.base,
                env |-> last.env, ret |-> norm.path, live |-> norm.live]
  /\ UNCHANGED <<module_head_p, heap, native_ptr, created, held, parse_tried,
                 parse_ok, returned>>

PathNext ==
  \/ GetDirectoryEnd
  \/ NormalizePath

PathSpec == PathInit /\ [][PathNext]_vars

(***************************************************************************)
(* The release on its own: the calls of jerry_port_module_release and the  *)
(* cleanup, from every registry of up to MaxChain records that the         *)
(* resolver can have built: the records have different (realm, path) keys, *)
(* lie at any addresses, and the module of the record inserted last, the   *)
(* head, has the highest number.                                           *)
(***************************************************************************)
\* the sequences of n different elements of S
InjectiveSeqs(S, n) ==
  {q \in [1..n -> S] : \A i, j \in 1..n : i # j => q[i] # q[j]}

\* the registry with the keys ks at the addresses as, in list order
ReleaseInitFrom(n, ks, as) ==
  /\ module_head_p = IF n = 0 THEN NULL ELSE as[1]
  /\ heap = [a \in 1..MaxChain |->
               IF \E i \in 1..n : as[i] = a
                 THEN LET i == CHOOSE i \in 1..n : as[i] = a
                      IN [alloc |-> TRUE,
                          next_p |-> IF i = n THEN NULL ELSE as[i + 1],
                          path_p |-> ks[i][2],
                          base_path_length |-> jerry_port_get_directory_end(ks[i][2]),
                          realm |-> ks[i][1], module |-> n - i + 1]
                 ELSE FreeBlock]
  /\ native_ptr = [m \in 1..MaxChain |-> IF m <= n THEN as[n - m + 1] ELSE NULL]
  /\ created = n
  /\ held = [v \in Realms \cup (1..MaxChain) |->
               Cardinality({i \in 1..n : ks[i][1] = v \/ n - i + 1 = v})]
  /\ parse_tried = {ks[i] : i \in 1..n}
  /\ parse_ok = {ks[i] : i \in 1..n}
  /\ returned = [k \in Keys |-> {n - i + 1 : i \in {j \in 1..n : ks[j] = k}}]
  /\ last = NoCall

ReleaseInit ==
  \E n \in 0..MaxChain :
    \E ks \in InjectiveSeqs(Keys, n) :
      \E as \in InjectiveSeqs(1..MaxChain, n) : ReleaseInitFrom(n, ks, as)

ReleaseNext ==
  \/ ModuleRelease
  \/ ManagerDeinit

ReleaseSpec == ReleaseInit /\ [][ReleaseNext]_vars

(***************************************************************************)
(* Properties.                                                             *)
(***************************************************************************)
\* the records of the registry, in list order, before and after a step
Records == Chain(module_head_p, heap)
RecordsAfter == Chain(module_head_p', heap')

\* the fields of a record other than its link
Fields(rec) == [path_p |-> rec.path_p, base_path_length |-> rec.base_path_length,
                realm |-> rec.realm, module |-> rec.module]

\* the records of a list with this realm and this path
Matching(hp, chain, realm, path) ==
  {i \in 1..Len(chain) : hp[chain[i]].realm = realm /\ hp[chain[i]].path_p = path}

\* number of times v occurs in a sequence
Count(seq, v) == Cardinality({i \in 1..Len(seq) : seq[i] = v})

\* the step is a call of the resolver that came to a path
ResolvedStep == last'.op = "resolve" /\ last'.start.path # NullStr
\* the path that call came to, and its key
PathAfter == last'.start.path[1]
KeyAfter == <<last'.realm, PathAfter>>
\* the registry is as it was: the head pointer and every block
RegistryUnchanged == module_head_p' = module_head_p /\ heap' = heap

\* the same for the last call, as a state predicate
LastResolved == last.op = "resolve" /\ last.start.path # NullStr
LastKey == <<last.realm, last.start.path[1]>>

\* C1 as stated: over the calls of the resolver for a path P in a realm C
\* whose records have not been released since, jerry_parse is invoked for P
\* at most once, and the calls that return a module return the same one.
C1_ParseInvokedAtMostOnce ==
  /\ [][(ResolvedStep /\ last'.parses = 1) => KeyAfter \notin parse_tried]_vars
  /\ [](\A k \in Keys : Cardinality(returned[k]) <= 1)

\* C1 amended: jerry_parse returns a module for P in C at most once (after
\* it has, it is not invoked for P in C again until the records of C are
\* released), while an invocation that returned an error can be followed
\* by another; the calls that return a module return the same one.
C1_ParsedAtMostOnce ==
  /\ [][(ResolvedStep /\ last'.parses = 1) => KeyAfter \notin parse_ok]_vars
  /\ [](\A k \in Keys : Cardinality(returned[k]) <= 1)

\* C1 witness: a hit on a key that was parsed before, returning the module
\* that the parsing call returned
C1_Witness ==
  /\ LastResolved /\ last.outcome = "hit"
  /\ LastKey \in parse_ok
  /\ returned[LastKey] = {last.ret.module}

\* C2: no two records of the registry have the same realm and the same
\* path.
C2_NoDuplicateRecords ==
  \A i, j \in 1..Len(Records) :
    i # j => ~(/\ heap[Records[i]].realm = heap[Records[j]].realm
               /\ heap[Records[i]].path_p = heap[Records[j]].path_p)

\* C2 witness: two records with the same path (in different realms), after a
\* call that found one of them
C2_Witness ==
  /\ last.outcome = "hit"
  /\ \E i, j \in 1..Len(Records) :
       i # j /\ heap[Records[i]].path_p = heap[Records[j]].path_p

\* C3: a call of the resolver in a realm is answered from a record only when
\* the record has that realm and the path; when no record has both, the call
\* is a miss that reads the source (and parses it and inserts a record of
\* its own realm when that succeeds); the records of the other realms stay
\* as they are.
C3_ContextIsolation ==
  [][ResolvedStep /\ ~last'.start.fault =>
       LET same == Matching(heap, Records, last'.realm, PathAfter)
       IN /\ last'.outcome = "hit" =>
               \E i \in same : heap[Records[i]].module = last'.ret.module
          /\ same = {} =>
               /\ last'.outcome # "hit" /\ last'.reads = 1
               /\ last'.io \notin ReadFaults => last'.parses = 1
               /\ last'.outcome = "inserted" =>
                    /\ heap'[module_head_p'].realm = last'.realm
                    /\ heap'[module_head_p'].path_p = PathAfter
          /\ \A i \in 1..Len(Records) : heap'[Records[i]] = heap[Records[i]]]_vars

\* C3 witness: a record was inserted for a path that another realm has a
\* record for
C3_Witness ==
  /\ LastResolved /\ last.outcome = "inserted"
  /\ \E i \in 1..Len(Records) :
       /\ heap[Records[i]].path_p = last.start.path[1]
       /\ heap[Records[i]].realm # last.realm

\* C4: after the release of the modules of a realm no record of that realm
\* is in the registry, and every record of another realm is still in it
\* with the same path, base path length, realm and module.
C4_ScopedRelease ==
  [][last'.op = "release" /\ last'.realm \in Realms =>
       /\ \A i \in 1..Len(RecordsAfter) :
            heap'[RecordsAfter[i]].realm # last'.realm
       /\ \A i \in 1..Len(Records) :
            heap[Records[i]].realm # last'.realm =>
              /\ \E j \in 1..Len(RecordsAfter) : RecordsAfter[j] = Records[i]
              /\ heap'[Records[i]].alloc
              /\ Fields(heap'[Records[i]]) = Fields(heap[Records[i]])
       /\ \A k \in Keys :
            LET found == LookupFrom(heap, module_head_p, k[1], k[2])
                after == LookupFrom(heap', module_head_p', k[1], k[2])
            IN IF k[1] = last'.realm
                 THEN after = NULL
                 ELSE after = found
                        /\ (found # NULL => heap'[after].module = heap[found].module)]_vars

\* C4 witness: the release of a realm freed a record and left a record of
\* the other realm
C4_Witness ==
  /\ last.op = "release" /\ last.realm \in Realms
  /\ last.freed # <<>>
  /\ Records # <<>>

\* C5: after the release of every module the registry holds no record, and
\* for each record it held the realm and the module have been released
\* once and the path freed once.
C5_FullRelease ==
  [][last'.op \in {"release", "deinit"} /\ last'.realm = Undefined =>
       /\ module_head_p' = NULL
       /\ \A a \in Addrs : ~heap'[a].alloc
       /\ \A v \in Values :
            Count(last'.released, v) =
              Cardinality({i \in 1..Len(Records) :
                             heap[Records[i]].realm = v \/ heap[Records[i]].module = v})
       /\ \A a \in Addrs :
            Count(last'.freed, <<"path_p", a>>) =
              Cardinality({i \in 1..Len(Records) : Records[i] = a})]_vars

\* C5 witness: a release of every module that freed two records of one
\* realm
C5_Witness ==
  /\ last.op \in {"release", "deinit"} /\ last.realm = Undefined
  /\ \E v \in Realms : Count(last.released, v) = 2
  /\ module_head_p = NULL

\* C6: when jerry_parse returns an error for the source at the path, the
\* resolver returns that error value and the registry (the records and
\* their order) is as before the call.
C6_ParseFailure ==
  [][(/\ ResolvedStep /\ ~last'.start.fault
      /\ Matching(heap, Records, last'.realm, PathAfter) = {}
      /\ last'.io = "parse") =>
       /\ last'.ret = ErrParse
       /\ RegistryUnchanged
       /\ RecordsAfter = Records]_vars

\* C6 witness: a call returned the error of jerry_parse while the registry
\* held a record
C6_Witness ==
  /\ LastResolved /\ last.io = "parse" /\ last.parses = 1
  /\ last.ret = ErrParse
  /\ Records # <<>>

\* C7: when the lookup misses and jerry_port_read_source fails for the path,
\* the resolver returns an error of the syntax type, jerry_parse is not
\* called and the registry is as before the call.
C7_MissingSource ==
  [][(/\ ResolvedStep /\ ~last'.start.fault
      /\ Matching(heap, Records, last'.realm, PathAfter) = {}
      /\ last'.io \in ReadFaults) =>
       /\ last'.ret.type = "JERRY_ERROR_SYNTAX"
       /\ last'.ret.module = NULL
       /\ last'.parses = 0
       /\ RegistryUnchanged]_vars

\* C7 witness: the path of a call was a directory while the registry held a
\* record
C7_Witness ==
  /\ LastResolved /\ last.io = "directory" /\ last.reads = 1
  /\ last.ret = ErrNotFound
  /\ Records # <<>>

\* the resolver has returned an error
LastFailed ==
  last.op = "resolve" /\ last.ret.type \in {"JERRY_ERROR_COMMON", "JERRY_ERROR_SYNTAX"}

\* C8: when the resolver returns an error, and when the normalization
\* returns NULL, every buffer the call allocated has been freed.
C8_NoLeakOnFailure ==
  /\ LastFailed => last.live = {}
  /\ \A s \in Specifiers, b \in BaseArguments, e \in Envs :
       LET norm == jerry_port_normalize_path(s, b.path, b.length, e)
       IN norm.path = NullStr => norm.live = {}

\* C9: when a record of the realm that is current has the path, the
\* resolver returns the module of that record with one more reference to
\* it, reads no source, parses nothing and leaves the registry as it was.
C9_CacheHit ==
  [][(/\ ResolvedStep /\ ~last'.start.fault
      /\ Matching(heap, Records, last'.realm, PathAfter) # {}) =>
       /\ \E i \in Matching(heap, Records, last'.realm, PathAfter) :
            last'.ret = ModuleValue(heap[Records[i]].module)
       /\ Count(last'.acquired, last'.ret.module)
            - Count(last'.released, last'.ret.module) = 1
       /\ last'.reads = 0 /\ last'.parses = 0
       /\ RegistryUnchanged
       /\ RecordsAfter = Records]_vars

\* C9 witness: a hit on a record that is not the first of the list
C9_Witness ==
  /\ LastResolved /\ last.outcome = "hit"
  /\ Count(last.acquired, last.ret.module) = 1
  /\ Len(Records) >= 2
  /\ heap[Records[1]].module # last.ret.module

\* the normalization returns NULL when one of its allocations fails: the
\* copy of the specifier, the copy of the base path, the working directory
\* when there is no base path and getcwd has failed, the result
AllocationFailureGivesNoPath ==
  \A s \in Specifiers, b \in BaseArguments, e \in Envs :
    (\/ e.fault \in {"in_path_pz", "path_p"}
     \/ e.fault = "base_path_pz" /\ b.length > 0
     \/ e.fault = "cwd_malloc" /\ b.length = 0)
      => jerry_port_normalize_path(s, b.path, b.length, e).path = NullStr

\* C10: when the normalization returns no path, the resolver returns the
\* common error "Out of memory", does not look up, read or parse, and leaves
\* the registry as it was.
C10_NormalizeFailure ==
  /\ [](AllocationFailureGivesNoPath)
  /\ [][(/\ last'.op = "resolve" /\ ~last'.start.fault
         /\ last'.start.path = NullStr) =>
          /\ last'.ret = ErrOutOfMemory
          /\ ~last'.scanned /\ last'.reads = 0 /\ last'.parses = 0
          /\ last'.acquired = <<>>
          /\ RegistryUnchanged]_vars

\* C10 witness: the normalization returned no path while the registry held
\* a record
C10_Witness ==
  /\ last.op = "resolve" /\ ~last.start.fault /\ last.start.path = NullStr
  /\ last.ret = ErrOutOfMemory
  /\ Records # <<>>

\* where the separators of a path are
Separators(path) == {i \in 1..Len(path) : path[i] = Slash}

\* C11: jerry_port_get_directory_end returns 0 for a path without a
\* separator; otherwise it returns r with a separator as the r-th character
\* (index r - 1 counted from 0) and no separator after it; it returns 5 for
\* "/a/b/c.js" and 0 for "bare.js".
C11_DirectoryEnd ==
  last.op = "get_directory_end" =>
    /\ Separators(last.path) = {} => last.ret = 0
    /\ Separators(last.path) # {} =>
         /\ last.ret \in Separators(last.path)
         /\ \A i \in Separators(last.path) : i <= last.ret
    /\ last.path = Str_abc_js => last.ret = 5
    /\ last.path = Str_bare_js => last.ret = 0

\* C11 witness: the call for "/a/b/c.js" has returned 5
C11_Witness ==
  /\ last.op = "get_directory_end"
  /\ last.path = Str_abc_js
  /\ last.ret = 5

\* a canonical path: absolute, with one separator before each segment and
\* none at the end (the root alone is "/"), and no segment "." or ".."
IsCanonicalPath(path) ==
  /\ Len(path) > 0 /\ path[1] = Slash
  /\ \/ path = <<Slash>>
     \/ /\ path[Len(path)] # Slash
        /\ \A i \in 1..(Len(path) - 1) : ~(path[i] = Slash /\ path[i + 1] = Slash)
        /\ \A i \in 1..Len(path) :
             path[i] = Slash =>
               /\ ~(/\ i + 1 <= Len(path) /\ path[i + 1] = "."
                    /\ (i + 1 = Len(path) \/ path[i + 2] = Slash))
               /\ ~(/\ i + 2 <= Len(path) /\ path[i + 1] = "." /\ path[i + 2] = "."
                    /\ (i + 2 = Len(path) \/ path[i + 3] = Slash))

\* C12: jerry_port_normalize_path of a canonical path P with no base path
\* (base_path_length = 0) returns a string equal to P whatever getcwd
\* returns, also when getcwd fails; it returns NULL only when one of its
\* allocations fails.
C12_NormalizeIdempotent ==
  (/\ last.op = "normalize_path" /\ last.base.length = 0
   /\ IsCanonicalPath(last.path)) =>
    /\ last.ret \in {NullStr, StrPtr(last.path)}
    /\ last.env.fault \notin {"in_path_pz", "cwd_malloc", "path_p"} =>
         last.ret = StrPtr(last.path)

\* C12 witness: "/a/a" has been normalized with no base path in the working
\* directory "/d"
C12_Witness ==
  /\ last.op = "normalize_path" /\ last.base.length = 0
  /\ last.path = <<"/", "a", "/", "a">>
  /\ last.env = [fault |-> "none", cwd |-> <<"/", "d">>]
  /\ last.ret = StrPtr(last.path)

\* the (realm, path, module) triples of the records of a list
RecordTriples(hp, chain) ==
  {<<hp[chain[i]].realm, hp[chain[i]].path_p, hp[chain[i]].module>> :
     i \in 1..Len(chain)}

\* the triples of the calls of the resolver that missed, parsed and returned
\* a module, less those of the realms released since
Produced ==
  UNION {{<<k[1], k[2], m>> : m \in returned[k]} : k \in parse_ok}

\* C13: the records of the registry are exactly the (realm, path, module)
\* triples of the calls of the resolver that missed and parsed a module and
\* whose realm no release has matched since, one record for each; a call of
\* the resolver adds the triple of the module it parsed and nothing else,
\* and removes nothing; a release adds nothing.
C13_Membership ==
  /\ [](/\ RecordTriples(heap, Records) = Produced
        /\ Len(Records) = Cardinality(Produced))
  /\ [][last'.op = "resolve" =>
          RecordTriples(heap', RecordsAfter) =
            RecordTriples(heap, Records)
              \cup (IF last'.parses = 1 /\ last'.ret.type = "module"
                      THEN {<<last'.realm, PathAfter, last'.ret.module>>}
                      ELSE {})]_vars
  /\ [][last'.op \in {"release", "deinit"} =>
          RecordTriples(heap', RecordsAfter) \subseteq RecordTriples(heap, Records)]_vars

\* C13 witness: after two modules were parsed in one realm and one in the
\* other, the release of the first realm has left the record of the other
C13_Witness ==
  /\ last.op = "release" /\ last.realm \in Realms
  /\ Len(last.freed) = 4
  /\ Cardinality(Produced) = 1
  /\ RecordTriples(heap, Records) = Produced

\* the records of the registry that refer to a value, as their realm or as
\* their module
Referring(v) ==
  {i \in 1..Len(Records) : heap[Records[i]].realm = v \/ heap[Records[i]].module = v}

\* C14: after a call of the resolver or a release that has returned, the
\* references the port holds on each realm and on each module are as many
\* as the records that refer to it; the reference to the realm that the
\* resolver obtains is released when a record matches, when the source
\* cannot be read and when it does not parse, and is kept, for the new
\* record, when a record is inserted.
C14_ReferenceBalance ==
  last.outcome # "fault" =>
    /\ \A v \in Values : held[v] = Cardinality(Referring(v))
    /\ (LastResolved /\ last.outcome \in {"hit", "not_found", "parse_error"}) =>
         /\ Count(last.acquired, last.realm) = 1
         /\ Count(last.released, last.realm) = 1
    /\ (LastResolved /\ last.outcome = "inserted") =>
         /\ Count(last.acquired, last.realm) = 1
         /\ Count(last.released, last.realm) = 0
         /\ heap[module_head_p].realm = last.realm

\* C14 witness: a record matched in a realm that two records refer to
C14_Witness ==
  /\ LastResolved /\ last.outcome = "hit"
  /\ Count(last.released, last.realm) = 1
  /\ held[last.realm] = 2
  /\ Cardinality(Referring(last.realm)) = 2

\* the referrer has a native pointer of this port
CarriesRecord(referrer) == referrer \in Modules /\ native_ptr[referrer] # NULL

\* what jerry_port_get_cwd gives when it gives a string
WorkingDirectory(env) == IF env.fault = "getcwd" THEN <<Slash>> ELSE env.cwd

\* every call that can be made in this state with this referrer and comes
\* to a path has taken the base the claim names
BaseSelected(referrer) ==
  \A specifier \in Specifiers, env \in Envs,
     base \in ReferrerBases(Registry, referrer) :
    LET start == ResolvePath(specifier, base, env)
    IN (~start.fault /\ start.path # NullStr) =>
         IF CarriesRecord(referrer)
           THEN LET rec == heap[native_ptr[referrer]]
                IN /\ rec.alloc
                   /\ start.path =
                        StrPtr(cwk_path_get_absolute(
                                 SubSeq(rec.path_p, 1, rec.base_path_length),
                                 specifier))
           ELSE start.path =
                  StrPtr(cwk_path_get_absolute(WorkingDirectory(env), specifier))

\* C15: a call of the resolver whose referrer carries a record normalizes
\* the specifier against the first base_path_length characters of the path
\* of that record; a call whose referrer carries none normalizes it against
\* the working directory.
C15_BaseSelection == \A referrer \in Referrers : BaseSelected(referrer)

\* C16: the native pointer of every module object that has one points to a
\* record that is in the registry, allocated, and the record of that
\* module, so the resolver, given the module as the referrer, reads no
\* freed record, also after a release.
C16_NoDanglingBackReference ==
  \A m \in Modules :
    native_ptr[m] # NULL =>
      /\ \E i \in 1..Len(Records) : Records[i] = native_ptr[m]
      /\ heap[native_ptr[m]].alloc
      /\ heap[native_ptr[m]].module = m

\* the list from the head pointer, cut after one more record than the heap
\* has blocks
ListOf(head, hp) == ChainFrom(hp, head, Cardinality(DOMAIN hp) + 1)

\* C17: after a release, whatever it matched, the list from the head
\* pointer ends with NULL and visits no record twice, every record of it is
\* allocated, and it is the list before the release without the records
\* that matched, in the same order and with the same fields; the records
\* that matched have been freed.
C17_ReleaseKeepsList ==
  [][last'.op \in {"release", "deinit"} =>
       LET before == ListOf(module_head_p, heap)
           after == ListOf(module_head_p', heap')
           Kept(a) == last'.realm \in Realms /\ heap[a].realm # last'.realm
       IN /\ after = SelectSeq(before, Kept)
          /\ \A i, j \in 1..Len(after) : i # j => after[i] # after[j]
          /\ after # <<>> => heap'[after[Len(after)]].next_p = NULL
          /\ \A i \in 1..Len(after) :
               /\ heap'[after[i]].alloc
               /\ Fields(heap'[after[i]]) = Fields(heap[after[i]])
          /\ \A i \in 1..Len(before) :
               ~Kept(before[i]) => ~heap'[before[i]].alloc]_vars

\* C17 witness: a release has freed the second and the third of four
\* records and left the first and the fourth (the modules are numbered from
\* the end of the list)
C17_Witness ==
  /\ last.op = "release" /\ last.realm \in Realms
  /\ Len(last.freed) = 4
  /\ Len(ListOf(module_head_p, heap)) = 2
  /\ heap[module_head_p].module = 4
  /\ heap[heap[module_head_p].next_p].module = 1

\* C18: a call of the resolver that misses, parses a module and returns it
\* adds one record, a block that held no record, as the first of the list;
\* the record has the path the normalization returned (the buffer is not
\* freed and no longer the call's), the place after the last separator of
\* that path as base_path_length, the realm of the call and the module
\* returned; the records the list had follow in the same order with the
\* same fields and links.
C18_InsertFrame ==
  [][(ResolvedStep /\ last'.parses = 1 /\ last'.ret.type = "module") =>
       /\ RecordsAfter = <<module_head_p'>> \o Records
       /\ ~heap[module_head_p'].alloc /\ heap'[module_head_p'].alloc
       /\ heap'[module_head_p'].path_p = PathAfter
       /\ "path_p" \in last'.start.live /\ "path_p" \notin last'.live
       /\ LET seps == Separators(PathAfter)
              r == heap'[module_head_p'].base_path_length
          IN /\ r \in seps
             /\ \A i \in seps : i <= r
       /\ heap'[module_head_p'].realm = last'.realm
       /\ heap'[module_head_p'].module = last'.ret.module
       /\ \A i \in 1..Len(Records) : heap'[Records[i]] = heap[Records[i]]]_vars

\* C18 witness: a third record, with the path "/d/a" and the directory
\* length 3, has been put in front of two records
C18_Witness ==
  /\ LastResolved /\ last.outcome = "inserted"
  /\ Len(Records) = 3
  /\ heap[module_head_p].path_p = <<"/", "d", "/", "a">>
  /\ heap[module_head_p].base_path_length = 3
  /\ heap[module_head_p].module = last.ret.module

\* no native pointer leads to a freed record, so a call that faults before
\* it has a path has faulted on the copy of the specifier
NoFreedRecordRead ==
  \A m \in Modules : native_ptr[m] # NULL => heap[native_ptr[m]].alloc

\* the last call wrote through the NULL that malloc returned: for the copy
\* of the specifier, or for the record after jerry_parse
WroteThroughNull ==
  /\ last.op = "resolve" /\ last.outcome = "fault"
  /\ \/ last.start.fault /\ NoFreedRecordRead
     \/ last.parses = 1

\* C19: when malloc fails for the copy of the specifier or for the new
\* record, the resolver does not write through the NULL it got but returns
\* an error, and every record of the list is allocated, has a path, a realm
\* and a module, and is in the list once.
C19_AllocationSafety ==
  /\ ~WroteThroughNull
  /\ (last.op = "resolve" /\ last.io = "module_p") =>
       last.ret.type \in {"JERRY_ERROR_COMMON", "JERRY_ERROR_SYNTAX"}
  /\ \A i \in 1..Len(Records) :
       /\ heap[Records[i]].alloc
       /\ heap[Records[i]].path_p \in Paths
       /\ heap[Records[i]].realm \in Realms
       /\ heap[Records[i]].module \in Modules
       /\ \A j \in 1..Len(Records) : i # j => Records[i] # Records[j]
====
